---- MODULE Spec2Model ----
(***************************************************************************)
(* Model of scripts/data/generate_utreexo_data.py: the canonical encoding  *)
(* of a transaction output (TxOut.serialize), the leaf hash of an outpoint *)
(* (OutPoint.hash) and the block replay (UtreexoData.apply_blocks) that    *)
(* drives the Utreexo accumulator.                                         *)
(*                                                                         *)
(* Python integers are unbounded.  A non-negative integer is represented   *)
(* by its canonical big-endian base-256 digit sequence (no leading zero    *)
(* digit, zero is << >>), so that n < 2^(8k) is Len(n) <= k.  Strings are  *)
(* sequences of one-character strings.                                     *)
(***************************************************************************)
EXTENDS Integers, Sequences, FiniteSets, TLC

\* ------------------------------------------------------------------------
\* Bounds of the model-checked input space
\* ------------------------------------------------------------------------
MaxScriptBytes == 63
MaxCalls == 2
MaxHeight == 3
MaxTxs == 2
MaxIns == 2
MaxOuts == 2

VARIABLES
    utreexo,     \* self.utreexo: the accumulator's leaves, in position order
    pc,          \* where apply_blocks stands
    nblocks,     \* len(blocks)
    block_idx,   \* apply_blocks: block_idx
    block,       \* apply_blocks: block, as far as the loops have read it
    i,           \* apply_blocks: i, the transaction index of the running loop
    state,       \* apply_blocks: state
    proofs,      \* apply_blocks: proofs
    result,      \* the value apply_blocks returned
    error,       \* the exception apply_blocks raised ("" when none)
    calls,       \* history: the accumulator calls of the running apply_blocks
    skipped,     \* history: what the inputs the running loop passed over contained
    entry,       \* history: the accumulator when apply_blocks was entered
    height,      \* the height of the last block read
    ncalls,      \* apply_blocks calls made so far
    shape,       \* the shape of the block data of this run (see Shapes)
    block_entry, \* history: the accumulator when the running block began
    ser_in,      \* the TxOut whose serialize() is called
    ser_out      \* what serialize() returned

vars == <<utreexo, pc, nblocks, block_idx, block, i, state, proofs, result,
          error, calls, skipped, entry, height, ncalls, shape, block_entry,
          ser_in, ser_out>>


\* ------------------------------------------------------------------------
\* Unbounded integers as canonical base-256 digit sequences
\* ------------------------------------------------------------------------
RECURSIVE StripZeros(_)
StripZeros(s) ==
    IF s = << >> THEN << >>
    ELSE IF Head(s) = 0 THEN StripZeros(Tail(s)) ELSE s

RECURSIVE IntToBig(_)
IntToBig(n) ==
    IF n = 0 THEN << >> ELSE Append(IntToBig(n \div 256), n % 256)

Reverse(s) == [k \in 1..Len(s) |-> s[Len(s) + 1 - k]]

\* int.from_bytes(b, "big")
FromBytesBig(b) == StripZeros(b)

\* int.from_bytes(b, "little")
FromBytesLittle(b) == StripZeros(Reverse(b))

\* n.to_bytes(width, byteorder="big"); OverflowError when n needs more bytes
ToBytesBig(n, width) ==
    IF Len(n) > width
    THEN [err |-> TRUE, val |-> << >>]
    ELSE [err |-> FALSE, val |-> [k \in 1..(width - Len(n)) |-> 0] \o n]

\* pending_word * 0x100 + byte
MulAddByte(pending_word, byte) == StripZeros(Append(pending_word, byte))

\* ------------------------------------------------------------------------
\* Strings: hexadecimal decoding and UTF-8 encoding
\* ------------------------------------------------------------------------
HexDigits == <<"0", "1", "2", "3", "4", "5", "6", "7",
               "8", "9", "a", "b", "c", "d", "e", "f">>

UpperHexDigits == <<"0", "1", "2", "3", "4", "5", "6", "7",
                    "8", "9", "A", "B", "C", "D", "E", "F">>

\* the value of each hexadecimal digit, either case
HexTable ==
    [c \in {HexDigits[k] : k \in 1..16} \cup {UpperHexDigits[k] : k \in 1..16} |->
        (CHOOSE k \in 1..16 : HexDigits[k] = c \/ UpperHexDigits[k] = c) - 1]

IsHexChar(c) == c \in DOMAIN HexTable

HexVal(c) == HexTable[c]

\* bytes.fromhex(s): ValueError on an odd digit count or a non-hex character
FromHex(s) ==
    IF Len(s) % 2 # 0 \/ \E k \in 1..Len(s) : ~IsHexChar(s[k])
    THEN [err |-> TRUE, val |-> << >>]
    ELSE [err |-> FALSE,
          val |-> [k \in 1..(Len(s) \div 2) |->
                     16 * HexVal(s[2 * k - 1]) + HexVal(s[2 * k])]]

\* Unicode code points of the characters the model's strings use
\* ("e'" stands for U+00E9 and "E=" for U+20AC)
CodePoint(c) ==
    IF \E k \in 1..10 : HexDigits[k] = c THEN 48 + HexVal(c)
    ELSE IF \E k \in 11..16 : HexDigits[k] = c THEN 87 + HexVal(c)
    ELSE IF \E k \in 11..16 : UpperHexDigits[k] = c THEN 55 + HexVal(c)
    ELSE CASE c = "X" -> 88
           [] c = "g" -> 103
           [] c = "x" -> 120
           [] c = "e'" -> 233
           [] c = "E=" -> 8364

Utf8Char(c) ==
    LET cp == CodePoint(c) IN
    IF cp < 128 THEN <<cp>>
    ELSE IF cp < 2048 THEN <<192 + (cp \div 64), 128 + (cp % 64)>>
    ELSE <<224 + (cp \div 4096), 128 + ((cp \div 64) % 64), 128 + (cp % 64)>>

\* s.encode("utf-8")
RECURSIVE EncodeUtf8(_)
EncodeUtf8(s) ==
    IF s = << >> THEN << >> ELSE Utf8Char(Head(s)) \o EncodeUtf8(Tail(s))

StartsWith0x(s) == Len(s) >= 2 /\ s[1] = "0" /\ s[2] \in {"x", "X"}

\* the bytes of pk_script (TxOut.serialize, "Convert pk_script to bytes")
ScriptBytes(pk_script) ==
    IF StartsWith0x(pk_script)
    THEN FromHex(SubSeq(pk_script, 3, Len(pk_script)))
    ELSE [err |-> FALSE, val |-> EncodeUtf8(pk_script)]

\* ------------------------------------------------------------------------
\* TxOut.serialize
\* ------------------------------------------------------------------------
\* the locals of serialize when the for loop over byte_data starts
PackStart ==
    [err |-> FALSE, pending_word |-> << >>, pending_word_len |-> 0,
     sub_data |-> << >>]

\* "Convert new_pending to 31 bytes (big endian)" and append the word
PackFlush(st, new_pending_bytes) ==
    IF new_pending_bytes.err
    THEN [st EXCEPT !.err = TRUE]
    ELSE [err |-> FALSE, pending_word |-> << >>, pending_word_len |-> 0,
          sub_data |-> Append(st.sub_data, FromBytesBig(new_pending_bytes.val))]

\* the word is completed one byte later
PackMergeLate(st, new_pending) ==
    IF st.pending_word_len < 31
    THEN [st EXCEPT !.pending_word = new_pending,
                    !.pending_word_len = @ + 1]
    ELSE PackFlush(st, ToBytesBig(new_pending, 31))

\* the loop body once pending_word_len > 0, new_pending being
\* pending_word * 0x100 + byte
PackMerge(st, new_pending) ==
    IF st.pending_word_len < 31 - 1
    THEN [st EXCEPT !.pending_word = new_pending,
                    !.pending_word_len = @ + 1]
    ELSE PackFlush(st, ToBytesBig(new_pending, 31))

\* one iteration of "for byte in byte_data" (a raised ValueError ends the loop)
PackStep(st, byte) ==
    IF st.err THEN st
    ELSE IF ~(0 <= byte /\ byte <= 255) THEN [st EXCEPT !.err = TRUE]
    ELSE IF st.pending_word_len = 0
    THEN [st EXCEPT !.pending_word = IntToBig(byte), !.pending_word_len = 1]
    ELSE PackMerge(st, MulAddByte(st.pending_word, byte))

\* the for loop over byte_data, from position k on
RECURSIVE PackLoop(_, _, _)
PackLoop(byte_data, k, st) ==
    IF k > Len(byte_data) \/ st.err THEN st
    ELSE PackLoop(byte_data, k + 1, PackStep(st, byte_data[k]))

\* pending_word_len is not appended
ScriptDataNoTailLength(p) ==
    <<IntToBig(Len(p.sub_data))>> \o p.sub_data
      \o (IF p.pending_word_len > 0 THEN <<p.pending_word>> ELSE << >>)

\* the trailing word is appended only when it is not zero
ScriptDataNonZeroTail(p) ==
    <<IntToBig(Len(p.sub_data))>> \o p.sub_data
      \o (IF p.pending_word # << >> THEN <<p.pending_word>> ELSE << >>)
      \o <<IntToBig(p.pending_word_len)>>

\* the script section of the result: [len(sub_data)] + sub_data
\* + [pending_word] if pending_word_len > 0 + [pending_word_len]
ScriptData(p) ==
    <<IntToBig(Len(p.sub_data))>> \o p.sub_data
      \o (IF p.pending_word_len > 0 THEN <<p.pending_word>> ELSE << >>)
      \o <<IntToBig(p.pending_word_len)>>

\* the result list once the loop has left p
SerializePacked(txout, p) ==
    IF p.err
    THEN [err |-> TRUE, res |-> << >>]
    ELSE [err |-> FALSE,
          res |-> <<txout.value>> \o ScriptData(p)
                    \o <<IntToBig(IF txout.cached THEN 1 ELSE 0)>>]

SerializeBytes(txout, byte_data) ==
    IF byte_data.err
    THEN [err |-> TRUE, res |-> << >>]
    ELSE SerializePacked(txout, PackLoop(byte_data.val, 1, PackStart))

\* TxOut.serialize(): err when an exception is raised, res the returned list
Serialize(txout) == SerializeBytes(txout, ScriptBytes(txout.pk_script))

\* ------------------------------------------------------------------------
\* OutPoint.hash: the list handed to poseidon_hash_many
\* ------------------------------------------------------------------------
\* b[:16] and b[16:]
FirstHalf(b) == SubSeq(b, 1, IF Len(b) < 16 THEN Len(b) ELSE 16)
SecondHalf(b) == SubSeq(b, 17, Len(b))

\* poseidon_hash_many(tab): a collision-free compression, kept symbolic
PoseidonHashMany(tab) == [poseidon |-> tab]

\* the block hash, height and time come before the serialized output
HashTabOfBlockFirst(op, txid_bytes, ser, hash_bytes) ==
    IF txid_bytes.err \/ ser.err \/ hash_bytes.err
    THEN [err |-> TRUE, tab |-> << >>]
    ELSE [err |-> FALSE,
          tab |-> <<FromBytesLittle(FirstHalf(txid_bytes.val)),
                    FromBytesLittle(SecondHalf(txid_bytes.val)),
                    IntToBig(op.vout),
                    FromBytesLittle(FirstHalf(hash_bytes.val)),
                    FromBytesLittle(SecondHalf(hash_bytes.val)),
                    IntToBig(op.block_height),
                    IntToBig(op.block_time)>>
                  \o ser.res
                  \o <<IntToBig(IF op.is_coinbase THEN 1 ELSE 0)>>]

\* the list tab from the decoded txid, the serialized output and the decoded
\* block hash
HashTabOf(op, txid_bytes, ser, hash_bytes) ==
    IF txid_bytes.err \/ ser.err \/ hash_bytes.err
    THEN [err |-> TRUE, tab |-> << >>]
    ELSE [err |-> FALSE,
          tab |-> <<FromBytesLittle(FirstHalf(txid_bytes.val)),
                    FromBytesLittle(SecondHalf(txid_bytes.val)),
                    IntToBig(op.vout)>>
                  \o ser.res
                  \o <<FromBytesLittle(FirstHalf(hash_bytes.val)),
                       FromBytesLittle(SecondHalf(hash_bytes.val)),
                       IntToBig(op.block_height),
                       IntToBig(op.block_time),
                       IntToBig(IF op.is_coinbase THEN 1 ELSE 0)>>]

\* the list tab that OutPoint.hash assembles; err when an exception is raised
HashTab(op) ==
    HashTabOf(op, FromHex(op.txid), Serialize(op.data), FromHex(op.block_hash))

\* ------------------------------------------------------------------------
\* The block data apply_blocks is given: blocks of a chain, heights counted
\* from 1, every hash and txid 32 bytes of hexadecimal text
\* ------------------------------------------------------------------------
Zeros(n) == [k \in 1..n |-> "0"]

BlockHashOf(h) ==
    <<"b", HexDigits[h + 1]>> \o Zeros(30) \o <<"c", HexDigits[h + 1]>> \o Zeros(30)

TxIdOf(h, p) ==
    <<HexDigits[h + 1], HexDigits[p + 1]>> \o Zeros(30) \o <<"a", "b">> \o Zeros(30)

BlockTimeOf(h) == 1231006505 + 600 * h

\* 5000000000
Value50BTC == <<1, 42, 5, 242, 0>>

\* five zero bytes
ZeroScript == <<"0", "x">> \o Zeros(10)

OutPlain == [value |-> Value50BTC, pk_script |-> ZeroScript, cached |-> FALSE]
OutCached == [value |-> Value50BTC, pk_script |-> ZeroScript, cached |-> TRUE]
\* an odd number of hexadecimal digits
OutBadScript == [value |-> Value50BTC, pk_script |-> <<"0", "x", "a">>,
                 cached |-> FALSE]

OutputPool == {OutPlain, OutCached, OutBadScript}

\* a reference to output v of transaction p of the block at height h, as an
\* input's previous_output carries it
PrevOut(h, p, v, data) ==
    [txid |-> TxIdOf(h, p), vout |-> v, data |-> data,
     block_height |-> h, block_time |-> BlockTimeOf(h),
     block_hash |-> BlockHashOf(h), is_coinbase |-> (p = 0)]

\* The block data explored: chains of up to MaxHeight blocks whose
\* transactions have at most one output, and chains one block shorter for
\* every further output a transaction may have, up to MaxOuts.
Shapes == {[heights |-> MaxHeight + 1 - o, outs |-> o] : o \in 1..MaxOuts}

WidestShape == [heights |-> MaxHeight, outs |-> MaxOuts]

InputPoolOf(sh) ==
    {[previous_output |-> PrevOut(h, p, v, OutPlain)] :
        h \in 1..sh.heights, p \in 0..(MaxTxs - 1), v \in 0..(sh.outs - 1)}
    \cup {[previous_output |-> PrevOut(1, 0, 0, OutCached)],
          \* the value differs from the one the output was inserted with
          [previous_output |-> PrevOut(1, 0, 0, [OutPlain EXCEPT !.value = IntToBig(50)])],
          \* a txid with an odd number of hexadecimal digits
          [previous_output |-> [PrevOut(1, 0, 0, OutPlain) EXCEPT !.txid = <<"1", "0", "0">>]]}

SeqsUpTo(S, n) == UNION {[1..k -> S] : k \in 0..n}

InputLists == [sh \in Shapes |-> SeqsUpTo(InputPoolOf(sh), MaxIns)]

OutputLists == [sh \in Shapes |-> SeqsUpTo(OutputPool, sh.outs)]

\* every outpoint the handlers can build from this block data
CreatedOutPoints ==
    {[txid |-> TxIdOf(h, p), vout |-> v,
      data |-> [value |-> d.value, pk_script |-> d.pk_script, cached |-> d.cached],
      block_height |-> h, block_time |-> BlockTimeOf(h),
      block_hash |-> BlockHashOf(h), is_coinbase |-> (p = 0)] :
        h \in 1..MaxHeight, p \in 0..(MaxTxs - 1), v \in 0..(MaxOuts - 1),
        d \in OutputPool}

KnownOutPoints ==
    CreatedOutPoints \cup {inp.previous_output : inp \in InputPoolOf(WidestShape)}

\* ------------------------------------------------------------------------
\* OutPoint.hash
\* ------------------------------------------------------------------------
HashOfTab(t) == [err |-> t.err, leaf |-> PoseidonHashMany(t.tab)]

\* hash() of the outpoints of the block data, tabulated once
HashTable == [op \in KnownOutPoints |-> HashOfTab(HashTab(op))]

\* OutPoint.hash()
OutPointHash(op) ==
    IF op \in KnownOutPoints THEN HashTable[op] ELSE HashOfTab(HashTab(op))

\* the leaf an input's previous_output hashes to
InputLeaf(input) == OutPointHash(input.previous_output)

\* ------------------------------------------------------------------------
\* Utreexo: the accumulator behind self.utreexo (add, delete, root_nodes,
\* leaf_nodes).  The state is the sequence of member leaves in position order.
\* ------------------------------------------------------------------------
IsMember(u, leaf) == \E k \in 1..Len(u) : u[k] = leaf

PositionOf(u, leaf) == CHOOSE k \in 1..Len(u) : u[k] = leaf

RemoveAt(u, k) == SubSeq(u, 1, k - 1) \o SubSeq(u, k + 1, Len(u))

\* node.val: the text "0x" followed by the hexadecimal digits of the field
\* element x, the digits kept as one item
NodeVal(x) == <<"0", "x", [hex_of |-> x]>>

\* the nodes of a proof: one per remaining member
ProofNodes(rest) == [n \in 1..Len(rest) |-> [val |-> NodeVal(rest[n])]]

\* Utreexo.add(leaf)
UtreexoAdd(u, leaf) == Append(u, leaf)

\* Utreexo.delete(leaf): raises when leaf is no member, otherwise removes it
\* and returns (proof, leaf_index); the proof names the remaining members
UtreexoDelete(u, leaf) ==
    IF ~IsMember(u, leaf)
    THEN [err |-> TRUE, utreexo |-> u, proof |-> << >>, leaf_index |-> -1]
    ELSE [err |-> FALSE, utreexo |-> RemoveAt(u, PositionOf(u, leaf)),
          proof |-> ProofNodes(RemoveAt(u, PositionOf(u, leaf))),
          leaf_index |-> PositionOf(u, leaf) - 1]

\* one step of the forest's binary carry: node joins row h (rows from 1), and
\* merges with the root already there; an absent root is << >>, a root <<node>>
RECURSIVE Carry(_, _, _)
Carry(roots, node, h) ==
    IF h > Len(roots) THEN Append(roots, <<node>>)
    ELSE IF roots[h] = << >> THEN [roots EXCEPT ![h] = <<node>>]
    ELSE Carry([roots EXCEPT ![h] = << >>],
               [val |-> NodeVal([left |-> roots[h][1].val, right |-> node.val])],
               h + 1)

\* Utreexo.root_nodes: one optional root per forest row
RECURSIVE RootNodes(_)
RootNodes(u) ==
    IF u = << >> THEN << >>
    ELSE Carry(RootNodes(SubSeq(u, 1, Len(u) - 1)),
               [val |-> NodeVal(u[Len(u)])], 1)

\* ------------------------------------------------------------------------
\* format_node, format_root_node, UtreexoData.snapshot_state
\* ------------------------------------------------------------------------
\* int.from_bytes(bytes.fromhex(hex_str), "big") of the digits of an element
HexToInt(hex_str) == hex_str[1].hex_of

\* node.val[2:] drops the "0x" and the digits are read back as an integer
FormatNode(node) == HexToInt(SubSeq(node.val, 3, Len(node.val)))

\* None is << >>, a dict is a record
FormatRootNode(node) ==
    IF node # << >>
    THEN <<[variant_id |-> 0, value |-> FormatNode(node[1])]>>
    ELSE << >>

SnapshotState(u) ==
    LET root_nodes == RootNodes(u) IN
    [roots |-> [h \in 1..Len(root_nodes) |-> FormatRootNode(root_nodes[h])],
     num_leaves |-> Len(u)]

\* the empty dict {}
EmptyDict == << >>

\* ------------------------------------------------------------------------
\* UtreexoData.handle_txin, UtreexoData.handle_txout
\* ------------------------------------------------------------------------
\* what an accumulator call without a return value is recorded with
NoRet == [proof |-> << >>, leaf_index |-> -1]

CallRecord(op, leaf, tag, ok, ret) ==
    [op |-> op, leaf |-> leaf, block |-> tag.block, tx |-> tag.tx,
     ok |-> ok, ret |-> ret]

\* OutPoint(...) with data=TxOut(...) as both handlers build it
OutPoint(txid, vout, value, pk_script, cached, block_height, block_time, block_hash, is_coinbase) ==
    [txid |-> txid, vout |-> vout,
     data |-> [value |-> value, pk_script |-> pk_script, cached |-> cached],
     block_height |-> block_height, block_time |-> block_time,
     block_hash |-> block_hash, is_coinbase |-> is_coinbase]

\* what a handler carries through its loop: the accumulator, the local proofs,
\* the exception raised ("" when none), the call history and the number of
\* items of its list the loop has read
HandlerStart(u, trace) ==
    [err |-> "", utreexo |-> u, proofs |-> << >>, calls |-> trace, read |-> 0]

ProofEntry(d) ==
    [proof |-> [n \in 1..Len(d.proof) |-> FormatNode(d.proof[n])],
     leaf_index |-> d.leaf_index]

\* the exception of delete is caught and the loop goes on
TxinDeletedSwallowed(st, leaf, d, tag) ==
    IF d.err
    THEN [st EXCEPT !.calls = Append(@, CallRecord("delete", leaf, tag, FALSE, NoRet))]
    ELSE [st EXCEPT !.utreexo = d.utreexo,
                    !.proofs = Append(@, ProofEntry(d)),
                    !.calls = Append(@, CallRecord("delete", leaf, tag, TRUE,
                                                   ProofEntry(d)))]

\* proofs.append(...) with what self.utreexo.delete(leaf) returned, d
TxinDeleted(st, leaf, d, tag) ==
    IF d.err
    THEN [st EXCEPT !.err = "LeafNotFound",
                    !.calls = Append(@, CallRecord("delete", leaf, tag, FALSE, NoRet))]
    ELSE [st EXCEPT !.utreexo = d.utreexo,
                    !.proofs = Append(@, ProofEntry(d)),
                    !.calls = Append(@, CallRecord("delete", leaf, tag, TRUE,
                                                   ProofEntry(d)))]

\* self.utreexo.delete(outpoint.hash()), h being outpoint.hash()
TxinRemove(st, h, tag) ==
    IF h.err THEN [st EXCEPT !.err = "ValueError"]
    ELSE TxinDeleted(st, h.leaf, UtreexoDelete(st.utreexo, h.leaf), tag)

\* the hash is taken of an outpoint that depends on the accumulator
TxinStepStateful(st, input, tag) ==
    IF input.previous_output.data.cached THEN st
    ELSE TxinRemove(st,
           OutPointHash(OutPoint(input.previous_output.txid,
                                 input.previous_output.vout + Len(st.utreexo),
                                 input.previous_output.data.value,
                                 input.previous_output.data.pk_script,
                                 input.previous_output.data.cached,
                                 input.previous_output.block_height,
                                 input.previous_output.block_time,
                                 input.previous_output.block_hash,
                                 input.previous_output.is_coinbase)),
           tag)

\* one iteration of "for input in inputs"
TxinStep(st, input, tag) ==
    IF input.previous_output.data.cached THEN st
    ELSE TxinRemove(st,
           OutPointHash(OutPoint(input.previous_output.txid,
                                 input.previous_output.vout,
                                 input.previous_output.data.value,
                                 input.previous_output.data.pk_script,
                                 input.previous_output.data.cached,
                                 input.previous_output.block_height,
                                 input.previous_output.block_time,
                                 input.previous_output.block_hash,
                                 input.previous_output.is_coinbase)),
           tag)

RECURSIVE HandleTxinLoop(_, _, _, _)
HandleTxinLoop(inputs, k, st, tag) ==
    IF k > Len(inputs) \/ st.err # "" THEN st
    ELSE HandleTxinLoop(inputs, k + 1,
                        TxinStep([st EXCEPT !.read = k], inputs[k], tag), tag)

\* handle_txin(inputs): .proofs is the list returned
HandleTxin(u, inputs, trace, tag) ==
    HandleTxinLoop(inputs, 1, HandlerStart(u, trace), tag)

\* self.utreexo.add(new_outpoint.hash()), h being new_outpoint.hash()
TxoutAdd(st, h, tag) ==
    IF h.err THEN [st EXCEPT !.err = "ValueError"]
    ELSE [st EXCEPT !.utreexo = UtreexoAdd(@, h.leaf),
                    !.calls = Append(@, CallRecord("add", h.leaf, tag, TRUE, NoRet))]

\* vout is always 0
TxoutStepVoutZero(st, vout, output, blk, tag) ==
    IF output.cached THEN st
    ELSE TxoutAdd(st,
           OutPointHash(OutPoint(blk.txid, 0, output.value, output.pk_script,
                                 output.cached, blk.height, blk.time, blk.hash,
                                 blk.is_coinbase)),
           tag)

\* the cached flag of an output is not looked at
TxoutStepNoSkip(st, vout, output, blk, tag) ==
    TxoutAdd(st,
        OutPointHash(OutPoint(blk.txid, vout, output.value, output.pk_script,
                              output.cached, blk.height, blk.time, blk.hash,
                              blk.is_coinbase)),
        tag)

\* one iteration of "for i, output in enumerate(outputs)", i = vout
TxoutStep(st, vout, output, blk, tag) ==
    IF output.cached THEN st
    ELSE TxoutAdd(st,
           OutPointHash(OutPoint(blk.txid, vout, output.value, output.pk_script,
                                 output.cached, blk.height, blk.time, blk.hash,
                                 blk.is_coinbase)),
           tag)

RECURSIVE HandleTxoutLoop(_, _, _, _, _)
HandleTxoutLoop(outputs, k, st, blk, tag) ==
    IF k > Len(outputs) \/ st.err # "" THEN st
    ELSE HandleTxoutLoop(outputs, k + 1,
                         TxoutStep([st EXCEPT !.read = k], k - 1, outputs[k],
                                   blk, tag),
                         blk, tag)

\* handle_txout(outputs, block_hash, block_height, block_time, txid, is_coinbase)
HandleTxout(u, outputs, block_hash, block_height, block_time, txid, is_coinbase, trace, tag) ==
    HandleTxoutLoop(outputs, 1, HandlerStart(u, trace),
        [hash |-> block_hash, height |-> block_height, time |-> block_time,
         txid |-> txid, is_coinbase |-> is_coinbase],
        tag)

\* ------------------------------------------------------------------------
\* UtreexoData.__init__ and UtreexoData.apply_blocks
\* ------------------------------------------------------------------------
NoBlock == [hash |-> << >>, height |-> 0, time |-> 0, txids |-> << >>,
            inputs |-> << >>, outputs |-> << >>]

NoSkip == [seen |-> FALSE, noncached |-> FALSE, present |-> FALSE]

NoTxOut == [value |-> << >>, pk_script |-> << >>, cached |-> FALSE]

\* a fresh UtreexoData: self.utreexo = Utreexo()
ReplayInit ==
    /\ utreexo = << >>
    /\ pc = "idle"
    /\ nblocks = 0
    /\ block_idx = 0
    /\ block = NoBlock
    /\ i = 0
    /\ state = EmptyDict
    /\ proofs = << >>
    /\ result = << >>
    /\ error = ""
    /\ calls = << >>
    /\ skipped = NoSkip
    /\ entry = << >>
    /\ height = 0
    /\ ncalls = 0
    /\ shape \in Shapes
    /\ block_entry = << >>

Init ==
    /\ ReplayInit
    /\ ser_in = NoTxOut
    /\ ser_out = << >>

\* apply_blocks begins on a fresh accumulator
CallOnFresh ==
    /\ pc \in {"idle", "returned", "raised"}
    /\ ncalls < MaxCalls
    /\ \E n \in 0..(shape.heights - height) : nblocks' = n
    /\ ncalls' = ncalls + 1
    /\ block_idx' = 0
    /\ block' = NoBlock
    /\ i' = 0
    /\ state' = EmptyDict
    /\ proofs' = << >>
    /\ result' = << >>
    /\ error' = ""
    /\ calls' = << >>
    /\ skipped' = NoSkip
    /\ utreexo' = << >>
    /\ entry' = << >>
    /\ block_entry' = << >>
    /\ pc' = "blocks"
    /\ UNCHANGED <<height, shape, ser_in, ser_out>>

\* apply_blocks(blocks) is entered: state = {}, proofs = []; the blocks given
\* continue the chain where the blocks read so far end
Call ==
    /\ pc \in {"idle", "returned", "raised"}
    /\ ncalls < MaxCalls
    /\ \E n \in 0..(shape.heights - height) : nblocks' = n
    /\ ncalls' = ncalls + 1
    /\ block_idx' = 0
    /\ block' = NoBlock
    /\ i' = 0
    /\ state' = EmptyDict
    /\ proofs' = << >>
    /\ result' = << >>
    /\ error' = ""
    /\ calls' = << >>
    /\ skipped' = NoSkip
    /\ entry' = utreexo
    /\ block_entry' = utreexo
    /\ pc' = "blocks"
    /\ UNCHANGED <<utreexo, height, shape, ser_in, ser_out>>

\* the two loops in the other order: the outputs are added, then the inputs
\* removed
PhaseAfterAddsFirst(phase) ==
    CASE phase = "snapshot" -> "txout"
      [] phase = "txout" -> "txin"
      [] phase = "txin" -> "end"

\* the statements of the body of "for block_idx, block in enumerate(blocks)",
\* in program order: the snapshot, the loop that removes, the loop that adds
PhaseAfter(phase) ==
    CASE phase = "snapshot" -> "txin"
      [] phase = "txin" -> "txout"
      [] phase = "txout" -> "end"

\* the first block instead of the last one
IsFirstBlock(idx, n) == idx = 0

\* block_idx == len(blocks) - 1
IsLastBlock(idx, n) == idx = n - 1

\* the next iteration of "for block_idx, block in enumerate(blocks)" begins:
\* the snapshot of the last block, then the first loop over block["data"]
NextBlock ==
    /\ pc = "blocks"
    /\ block_idx < nblocks
    /\ \E ntx \in 0..MaxTxs :
         block' = [hash |-> BlockHashOf(height + 1), height |-> height + 1,
                   time |-> BlockTimeOf(height + 1),
                   txids |-> [p \in 1..ntx |-> TxIdOf(height + 1, p - 1)],
                   inputs |-> << >>, outputs |-> << >>]
    /\ height' = height + 1
    /\ state' = IF IsLastBlock(block_idx, nblocks)
                THEN SnapshotState(utreexo) ELSE state
    /\ i' = 0
    /\ skipped' = NoSkip
    /\ block_entry' = utreexo
    /\ pc' = PhaseAfter("snapshot")
    /\ UNCHANGED <<utreexo, nblocks, block_idx, proofs, result, error, calls,
                   entry, ncalls, shape, ser_in, ser_out>>

\* no transaction is exempt
HasInputsHandledAlways(idx) == TRUE

\* "if i != 0": the transaction whose inputs the first loop hands to handle_txin
HasInputsHandled(idx) == idx # 0

\* what the inputs of a transaction the first loop passes over contain
SkipDigest(u, inputs) ==
    [seen |-> TRUE,
     noncached |-> \E k \in 1..Len(inputs) :
                      ~inputs[k].previous_output.data.cached,
     present |-> \E k \in 1..Len(inputs) :
                      /\ ~inputs[k].previous_output.data.cached
                      /\ ~InputLeaf(inputs[k]).err
                      /\ IsMember(u, InputLeaf(inputs[k]).leaf)]

\* the proofs of every block are kept
CollectProofsAlways(acc, inc_proofs, idx, n) == acc \o inc_proofs

\* proofs.extend(inc_proofs) for the last block only
CollectProofs(acc, inc_proofs, idx, n) ==
    IF IsLastBlock(idx, n) THEN acc \o inc_proofs ELSE acc

\* one iteration of the first loop, "First we remove all STXOs"
TxInStep ==
    /\ pc = "txin"
    /\ i < Len(block.txids)
    /\ \E inputs \in InputLists[shape] :
         IF HasInputsHandled(i)
         THEN LET r == HandleTxin(utreexo, inputs, calls,
                                  [block |-> block_idx, tx |-> i]) IN
              /\ utreexo' = r.utreexo
              /\ calls' = r.calls
              /\ block' = [block EXCEPT
                             !.inputs = Append(@, SubSeq(inputs, 1, r.read))]
              /\ skipped' = skipped
              /\ IF r.err # ""
                 THEN /\ pc' = "raised"
                      /\ error' = r.err
                      /\ UNCHANGED <<proofs, i>>
                 ELSE /\ proofs' = CollectProofs(proofs, r.proofs, block_idx, nblocks)
                      /\ i' = i + 1
                      /\ UNCHANGED <<pc, error>>
         ELSE /\ skipped' = SkipDigest(utreexo, inputs)
              /\ i' = i + 1
              /\ UNCHANGED <<utreexo, calls, block, proofs, pc, error>>
    /\ UNCHANGED <<nblocks, block_idx, state, result, entry, height, ncalls,
                   shape, block_entry, ser_in, ser_out>>

\* one iteration of the second loop, "Then we add all new UTXOs"
TxOutStep ==
    /\ pc = "txout"
    /\ i < Len(block.txids)
    /\ \E outputs \in OutputLists[shape] :
         LET r == HandleTxout(utreexo, outputs, block.hash, block.height,
                              block.time, block.txids[i + 1], i = 0, calls,
                              [block |-> block_idx, tx |-> i]) IN
         /\ utreexo' = r.utreexo
         /\ calls' = r.calls
         /\ block' = [block EXCEPT
                        !.outputs = Append(@, SubSeq(outputs, 1, r.read))]
         /\ IF r.err # ""
            THEN /\ pc' = "raised"
                 /\ error' = r.err
                 /\ i' = i
            ELSE /\ i' = i + 1
                 /\ UNCHANGED <<pc, error>>
    /\ UNCHANGED <<nblocks, block_idx, state, proofs, result, skipped, entry,
                   height, ncalls, shape, block_entry, ser_in, ser_out>>

\* a loop over block["data"] is exhausted and the next one begins
NextLoop ==
    /\ pc \in {"txin", "txout"}
    /\ i = Len(block.txids)
    /\ PhaseAfter(pc) # "end"
    /\ i' = 0
    /\ skipped' = NoSkip
    /\ pc' = PhaseAfter(pc)
    /\ UNCHANGED <<utreexo, nblocks, block_idx, block, state, proofs, result,
                   error, calls, entry, height, ncalls, shape, block_entry,
                   ser_in, ser_out>>

\* the last loop over block["data"] is exhausted: the block is done
EndBlock ==
    /\ pc \in {"txin", "txout"}
    /\ i = Len(block.txids)
    /\ PhaseAfter(pc) = "end"
    /\ block_idx' = block_idx + 1
    /\ skipped' = NoSkip
    /\ pc' = "blocks"
    /\ UNCHANGED <<utreexo, nblocks, block, i, state, proofs, result, error,
                   calls, entry, height, ncalls, shape, block_entry,
                   ser_in, ser_out>>

\* return {"state": state, "proofs": proofs, "expected": self.snapshot_state()}
Return ==
    /\ pc = "blocks"
    /\ block_idx = nblocks
    /\ result' = [state |-> state, proofs |-> proofs,
                  expected |-> SnapshotState(utreexo)]
    /\ pc' = "returned"
    /\ UNCHANGED <<utreexo, nblocks, block_idx, block, i, state, proofs, error,
                   calls, skipped, entry, height, ncalls, shape, block_entry,
                   ser_in, ser_out>>

\* ------------------------------------------------------------------------
\* TxOut.serialize on its own: the records it is called on
\* ------------------------------------------------------------------------
LeadBytes == {0, 1, 255}
FillBytes == {0, 171}

\* n bytes: the first one lead, the others fill
PatternBytes(n, lead, fill) == [k \in 1..n |-> IF k = 1 THEN lead ELSE fill]

\* the "0x" text of a byte string
HexScript(bytes) ==
    <<"0", "x">> \o [k \in 1..(2 * Len(bytes)) |->
                      IF k % 2 = 1 THEN HexDigits[(bytes[(k + 1) \div 2] \div 16) + 1]
                      ELSE HexDigits[(bytes[k \div 2] % 16) + 1]]

PatternScripts ==
    {HexScript(PatternBytes(n, lead, fill)) :
        n \in 0..MaxScriptBytes, lead \in LeadBytes, fill \in FillBytes}

\* text scripts, upper-case hexadecimal, and hexadecimal text that does not decode
OtherScripts ==
    {<<"a", "b">>, <<"e'">>, <<"E=", "0">>, <<"0">>, <<"x", "0">>,
     <<"0", "X", "F", "f">>, <<"0", "x", "a">>, <<"0", "x", "g", "g">>}

SerInputs ==
    {[value |-> v, pk_script |-> sc, cached |-> c] :
        v \in {<< >>, Value50BTC}, sc \in PatternScripts \cup OtherScripts,
        c \in BOOLEAN}

SerInit ==
    /\ ReplayInit
    /\ shape.outs = MaxOuts
    /\ ser_in \in SerInputs
    /\ ser_out = << >>

\* ser_in.serialize() is called
SerCall ==
    /\ ser_out = << >>
    /\ ser_out' = Serialize(ser_in)
    /\ UNCHANGED <<ser_in, utreexo, pc, nblocks, block_idx, block, i, state,
                   proofs, result, error, calls, skipped, entry, height, ncalls,
                   shape, block_entry>>

SerNext == SerCall

SerSpec == SerInit /\ [][SerNext]_vars

Next ==
    \/ Call
    \/ NextBlock
    \/ TxInStep
    \/ NextLoop
    \/ TxOutStep
    \/ EndBlock
    \/ Return

Spec == Init /\ [][Next]_vars

\* ------------------------------------------------------------------------
\* Properties
\* ------------------------------------------------------------------------
\* the index of the block the state is in or has just finished (-1: none yet)
CurBlock == IF pc \in {"blocks", "returned"} THEN block_idx - 1 ELSE block_idx

CallsOf(b) == SelectSeq(calls, LAMBDA c : c.block = b)

IsCachedInput(inp) == inp.previous_output.data.cached

\* the input refers to a transaction of the running block
SameBlockRef(inp) ==
    /\ ~IsCachedInput(inp)
    /\ inp.previous_output.block_hash = block.hash
    /\ \E p \in 1..Len(block.txids) : inp.previous_output.txid = block.txids[p]

\* C1: in the trace of accumulator calls of an apply_blocks run, no add of a
\* block precedes a delete of the same block.
C1_RemovesBeforeInserts ==
    \A m, n \in 1..Len(calls) :
        (m < n /\ calls[m].block = calls[n].block /\ calls[m].op = "add")
            => calls[n].op # "delete"

\* a block in which a leaf was removed and, later, a leaf added
C1_Witness ==
    \E m, n \in 1..Len(calls) :
        /\ m < n
        /\ calls[m].block = calls[n].block
        /\ calls[m].op = "delete" /\ calls[m].ok
        /\ calls[n].op = "add"

\* C2: once handle_txin reads a non-cached input that refers to a transaction
\* of the block being processed, apply_blocks has raised at the delete call
\* for that input (the leaf is no member) and has returned nothing.
C2_SameBlockSpendFails ==
    \A t \in 1..Len(block.inputs) : \A k \in 1..Len(block.inputs[t]) :
        SameBlockRef(block.inputs[t][k]) =>
            /\ pc = "raised"
            /\ error = "LeafNotFound"
            /\ result = << >>
            /\ t = Len(block.inputs) /\ k = Len(block.inputs[t])
            /\ calls # << >>
            /\ calls[Len(calls)] =
                 CallRecord("delete", InputLeaf(block.inputs[t][k]).leaf,
                            [block |-> block_idx, tx |-> t], FALSE, NoRet)

\* the second input of a transaction spends an output of the coinbase
\* transaction of the same block, after the first input was removed
C2_Witness ==
    /\ pc = "raised"
    /\ \E t \in 1..Len(block.inputs) :
         /\ Len(block.inputs[t]) = 2
         /\ ~IsCachedInput(block.inputs[t][1])
         /\ SameBlockRef(block.inputs[t][2])
         /\ block.inputs[t][2].previous_output.txid = block.txids[1]

\* C3: no delete call is made for an input of the first transaction of a
\* block, whatever its inputs contain: the step over it makes no accumulator
\* call; every other transaction's inputs go through handle_txin.
C3_CoinbaseExempt ==
    /\ \A n \in 1..Len(calls) : calls[n].op = "delete" => calls[n].tx # 0
    /\ (pc = "txin" /\ i = 1) =>
          /\ skipped.seen
          /\ CallsOf(block_idx) = << >>
          /\ utreexo = block_entry
    /\ pc = "txin" => Len(block.inputs) = (IF i = 0 THEN 0 ELSE i - 1)
    /\ pc = "txout" =>
          Len(block.inputs) = (IF block.txids = << >> THEN 0 ELSE Len(block.txids) - 1)

\* the first loop has passed over a coinbase transaction with a non-cached
\* input whose leaf is in the accumulator, and gone on to handle the inputs
\* of the next transaction
C3_Witness ==
    /\ pc = "txin" /\ i = 2
    /\ skipped.present
    /\ Len(block.inputs) = 1
    /\ utreexo = block_entry

\* the leaf handle_txout builds for output k (from 1) of the transaction at
\* index t (from 0) of the running block
OutputLeaf(t, k) ==
    OutPointHash(OutPoint(block.txids[t + 1], k - 1,
                          block.outputs[t + 1][k].value,
                          block.outputs[t + 1][k].pk_script,
                          block.outputs[t + 1][k].cached,
                          block.height, block.time, block.hash, t = 0))

\* every input and output read so far in the running block is cached
AllCachedSoFar ==
    /\ \A t \in 1..Len(block.inputs) : \A k \in 1..Len(block.inputs[t]) :
          IsCachedInput(block.inputs[t][k])
    /\ \A t \in 1..Len(block.outputs) : \A k \in 1..Len(block.outputs[t]) :
          block.outputs[t][k].cached

\* C4: every delete call of the running block is for a non-cached input read
\* in it, every add call for a non-cached output read in it; while all the
\* inputs and outputs read in the block are cached, the block has made no
\* accumulator call, has not failed, and the leaf count is the one the block
\* began with.
C4_CachedSkipped ==
    /\ \A n \in 1..Len(calls) : calls[n].block = CurBlock =>
          IF calls[n].op = "delete"
          THEN /\ calls[n].tx \in 1..Len(block.inputs)
               /\ \E k \in 1..Len(block.inputs[calls[n].tx]) :
                     /\ ~IsCachedInput(block.inputs[calls[n].tx][k])
                     /\ InputLeaf(block.inputs[calls[n].tx][k]).leaf = calls[n].leaf
          ELSE /\ calls[n].tx + 1 \in 1..Len(block.outputs)
               /\ \E k \in 1..Len(block.outputs[calls[n].tx + 1]) :
                     /\ ~block.outputs[calls[n].tx + 1][k].cached
                     /\ OutputLeaf(calls[n].tx, k).leaf = calls[n].leaf
    /\ AllCachedSoFar =>
          /\ CallsOf(CurBlock) = << >>
          /\ pc # "raised"
          /\ Len(utreexo) = Len(block_entry)
          /\ utreexo = block_entry

\* a block of two transactions is done, with a cached input and cached
\* outputs in both and nothing else, on a non-empty accumulator
C4_Witness ==
    /\ pc = "blocks" /\ CurBlock >= 0
    /\ Len(block.txids) = 2
    /\ AllCachedSoFar
    /\ Len(block.inputs) = 1 /\ Len(block.inputs[1]) >= 1
    /\ Len(block.outputs) = 2
    /\ Len(block.outputs[1]) >= 1 /\ Len(block.outputs[2]) >= 1
    /\ Len(utreexo) > 0

RECURSIVE Flatten(_)
Flatten(lists) ==
    IF lists = << >> THEN << >> ELSE Head(lists) \o Flatten(Tail(lists))

\* the non-cached inputs read in the running block, in transaction order and
\* then input order
NonCachedInputs == SelectSeq(Flatten(block.inputs), LAMBDA inp : ~IsCachedInput(inp))

\* the delete calls that returned, of block b
DeletesOf(b) == SelectSeq(calls, LAMBDA c : c.block = b /\ c.op = "delete" /\ c.ok)

RECURSIVE ReplayCalls(_, _)
ReplayCalls(u, trace) ==
    IF trace = << >> THEN u
    ELSE ReplayCalls(
           IF Head(trace).op = "add" THEN UtreexoAdd(u, Head(trace).leaf)
           ELSE IF Head(trace).ok THEN UtreexoDelete(u, Head(trace).leaf).utreexo
           ELSE u,
           Tail(trace))

\* C6: the returned state is the snapshot of the accumulator after exactly
\* the calls of the blocks before the last one, the returned expected the
\* snapshot after all calls; for an empty block list state is {} and expected
\* the snapshot of the accumulator as it was, no call being made.
C6_StateAndExpected ==
    pc = "returned" =>
        /\ result.expected = SnapshotState(ReplayCalls(entry, calls))
        /\ IF nblocks = 0
           THEN /\ result.state = EmptyDict
                /\ calls = << >>
                /\ result.expected = SnapshotState(entry)
           ELSE result.state =
                  SnapshotState(ReplayCalls(entry,
                      SelectSeq(calls, LAMBDA c : c.block < nblocks - 1)))

\* a run of two blocks which both changed the accumulator
C6_Witness ==
    /\ pc = "returned"
    /\ nblocks = 2
    /\ CallsOf(0) # << >> /\ CallsOf(1) # << >>
    /\ result.state # EmptyDict
    /\ result.state.num_leaves > 0
    /\ result.state # result.expected
    /\ result.state # SnapshotState(entry)

\* the calls of the blocks before the last one
EarlierCalls == SelectSeq(calls, LAMBDA c : c.block < nblocks - 1)

\* the run began on an empty accumulator, the blocks before the last one
\* made one call, the add of an output O, and the last block, as far as it
\* has been read, has at most one non-cached input, which hashes to the leaf
\* of O, and cached outputs only
C7_Scenario ==
    /\ pc \in {"txin", "txout", "blocks", "returned", "raised"}
    /\ entry = << >>
    /\ nblocks >= 2
    /\ CurBlock = nblocks - 1
    /\ Len(EarlierCalls) = 1
    /\ EarlierCalls[1].op = "add"
    /\ Len(NonCachedInputs) <= 1
    /\ \A n \in 1..Len(NonCachedInputs) :
          /\ ~InputLeaf(NonCachedInputs[n]).err
          /\ InputLeaf(NonCachedInputs[n]).leaf = EarlierCalls[1].leaf
    /\ \A t \in 1..Len(block.outputs) : \A k \in 1..Len(block.outputs[t]) :
          block.outputs[t][k].cached

\* C7: from an empty accumulator, when the earlier blocks create one
\* non-cached output O and the last block spends O in a non-cached input of a
\* non-coinbase transaction and creates no non-cached output, apply_blocks
\* does not fail and returns state with num_leaves 1, one proof whose
\* leaf_index is 0, the position O was inserted at, and expected with
\* num_leaves 0 and no root.
C7_SpendOfEarlierOutput ==
    C7_Scenario =>
        /\ pc # "raised"
        /\ (pc = "returned" /\ Len(NonCachedInputs) = 1) =>
              /\ result.state # EmptyDict
              /\ result.state.num_leaves = 1
              /\ Len(result.proofs) = 1
              /\ result.proofs[1].leaf_index = 0
              /\ result.expected.num_leaves = 0
              /\ result.expected.roots = << >>
              /\ utreexo = << >>

\* the scenario has run to its return
C7_Witness ==
    /\ C7_Scenario
    /\ pc = "returned"
    /\ Len(NonCachedInputs) = 1
    /\ Len(calls) = 2
    /\ calls[2].op = "delete" /\ calls[2].ok /\ calls[2].tx = 1

\* apply_blocks has returned from a run on an empty accumulator over one
\* block whose only transaction is the coinbase
C8_Scenario ==
    /\ pc = "returned"
    /\ entry = << >>
    /\ nblocks = 1
    /\ Len(block.txids) = 1
    /\ Len(block.outputs) = 1

\* the positions (from 1) of the non-cached outputs of the coinbase
C8_NonCached == {k \in 1..Len(block.outputs[1]) : ~block.outputs[1][k].cached}

\* what the run returns and the calls it makes, but for the leaves added
C8_Returned ==
    /\ \A n \in 1..Len(calls) : calls[n].op = "add"
    /\ result.proofs = << >>
    /\ result.state = SnapshotState(<< >>)
    /\ result.expected.num_leaves = Cardinality(C8_NonCached)
    /\ Len(calls) = Cardinality(C8_NonCached)

\* C8 as the specification states it: with one non-cached output the leaf
\* added is the hash of that output with vout = 0 and is_coinbase = true.
C8_Original ==
    C8_Scenario =>
        /\ C8_Returned
        /\ \A k \in C8_NonCached : Cardinality(C8_NonCached) = 1 =>
              calls[1].leaf =
                OutPointHash(OutPoint(block.txids[1], 0,
                                      block.outputs[1][k].value,
                                      block.outputs[1][k].pk_script,
                                      block.outputs[1][k].cached,
                                      block.height, block.time, block.hash,
                                      TRUE)).leaf

\* C8 (amended): from an empty accumulator and one block holding only a
\* coinbase, apply_blocks makes no delete call and returns proofs = [], state
\* the snapshot of the empty accumulator and expected.num_leaves the number
\* of non-cached coinbase outputs; with one non-cached output the only leaf
\* added is the hash of that output with is_coinbase = true and vout the
\* position of the output in the coinbase's output list, cached outputs
\* counted (0 only when it is the first output).
C8_CoinbaseOnlyBlock ==
    C8_Scenario =>
        /\ C8_Returned
        /\ \A k \in C8_NonCached : Cardinality(C8_NonCached) = 1 =>
              calls[1].leaf =
                OutPointHash(OutPoint(block.txids[1], k - 1,
                                      block.outputs[1][k].value,
                                      block.outputs[1][k].pk_script,
                                      block.outputs[1][k].cached,
                                      block.height, block.time, block.hash,
                                      TRUE)).leaf

\* the one non-cached output of the coinbase comes after a cached one
C8_Witness ==
    /\ C8_Scenario
    /\ Len(block.outputs[1]) = 2
    /\ C8_NonCached = {2}
    /\ Len(calls) = 1
    /\ result.expected.num_leaves = 1

\* the leaf of call n was a member of the accumulator when the call was made
MemberAtCall(n) == IsMember(ReplayCalls(entry, SubSeq(calls, 1, n - 1)), calls[n].leaf)

\* C9: a delete call fails exactly when its leaf is not a member of the
\* accumulator; the failed call is the last call apply_blocks makes, it is
\* made once, apply_blocks has raised the accumulator's error and there is no
\* result; the accumulator is what the calls before it left.
C9_AbsentLeafFatal ==
    \A n \in 1..Len(calls) :
        /\ calls[n].op = "delete" => (calls[n].ok <=> MemberAtCall(n))
        /\ ~calls[n].ok =>
              /\ calls[n].op = "delete"
              /\ n = Len(calls)
              /\ pc = "raised"
              /\ error = "LeafNotFound"
              /\ result = << >>
              /\ utreexo = ReplayCalls(entry, SubSeq(calls, 1, n - 1))

\* a delete has failed after calls that went through, inputs being left
C9_Witness ==
    /\ pc = "raised"
    /\ error = "LeafNotFound"
    /\ Len(calls) >= 3
    /\ ~calls[Len(calls)].ok
    /\ calls[Len(calls) - 1].op = "delete"
    /\ Len(utreexo) > 0
    /\ block_idx < nblocks - 1

\* the words of the script in the list serialize returned: the completed
\* words, and the trailing partial word when there is one
SerWords == SubSeq(ser_out.res, 3, Len(ser_out.res) - 2)
SerHasTail == ser_out.res[Len(ser_out.res) - 1] # << >>
SerCompleted == IF SerHasTail THEN SubSeq(SerWords, 1, Len(SerWords) - 1) ELSE SerWords
SerReturned == ser_out # << >> /\ ~ser_out.err

\* C10 as the specification states it: every word of the script section, the
\* trailing partial word included, is less than 2^(30*8).
C10_Original ==
    SerReturned => \A k \in 1..Len(SerWords) : Len(SerWords[k]) <= 30

\* C10 (amended): every completed word is less than 2^(31*8), it holds 31
\* bytes of the script; the trailing partial word is less than 2^(30*8).
C10_WordBounds ==
    SerReturned =>
        /\ \A k \in 1..Len(SerCompleted) : Len(SerCompleted[k]) <= 31
        /\ SerHasTail => Len(SerWords[Len(SerWords)]) <= 30

\* a completed word of 31 significant bytes is followed by a partial word of
\* 30 significant bytes
C10_Witness ==
    /\ SerReturned
    /\ SerHasTail
    /\ Len(SerCompleted) = 1
    /\ Len(SerCompleted[1]) = 31
    /\ Len(SerWords[2]) = 30

\* the number of script bytes a completed word is made of: the width of
\* new_pending.to_bytes(31, byteorder="big")
WordWidth == 31

\* the machine integer of a small unbounded integer
RECURSIVE ToNat(_)
ToNat(n) ==
    IF n = << >> THEN 0 ELSE 256 * ToNat(SubSeq(n, 1, Len(n) - 1)) + n[Len(n)]

\* the bytes serialize packs: byte_data
SerBytes == ScriptBytes(ser_in.pk_script).val

\* len(sub_data) and pending_word_len as the returned list holds them
SerWordCount == ToNat(ser_out.res[2])
SerTailLength == ToNat(ser_out.res[Len(ser_out.res) - 1])

\* the words as big-endian bytes of the given width, concatenated
RECURSIVE RenderWords(_, _)
RenderWords(words, width) ==
    IF words = << >> THEN << >>
    ELSE ToBytesBig(Head(words), width).val \o RenderWords(Tail(words), width)

\* the trailing partial word as tailLength big-endian bytes
RenderTail ==
    IF SerHasTail
    THEN ToBytesBig(SerWords[Len(SerWords)], SerTailLength).val
    ELSE << >>

\* C11: every completed word fits the word width of 31 bytes and the trailing
\* word fits tailLength bytes; the completed words rendered as 31 big-endian
\* bytes each, followed by the trailing word rendered as tailLength
\* big-endian bytes, are the script's bytes, leading zero bytes included.
C11_RoundTrip ==
    SerReturned =>
        /\ \A k \in 1..Len(SerCompleted) : ~ToBytesBig(SerCompleted[k], WordWidth).err
        /\ SerHasTail => ~ToBytesBig(SerWords[Len(SerWords)], SerTailLength).err
        /\ RenderWords(SerCompleted, WordWidth) \o RenderTail = SerBytes

\* a script of two completed words and a trailing byte, whose first byte is 0
\* and second is not
C11_Witness ==
    /\ SerReturned
    /\ Len(SerBytes) = 2 * WordWidth + 1
    /\ SerBytes[1] = 0 /\ SerBytes[2] # 0
    /\ Len(SerCompleted) = 2
    /\ Len(SerCompleted[1]) = WordWidth - 1
    /\ SerHasTail

\* C12 as the specification states it: wordCount is floor(n/30) and
\* tailLength is n - 30*wordCount.
C12_Original ==
    SerReturned =>
        /\ SerWordCount = Len(SerBytes) \div 30
        /\ SerTailLength = Len(SerBytes) - 30 * SerWordCount
        /\ SerTailLength \in 0..30
        /\ 30 * SerWordCount + SerTailLength = Len(SerBytes)

\* C12 (amended): for a script of n bytes wordCount is floor(n/31), the
\* number of completed 31-byte words, and tailLength is n - 31*wordCount, so
\* tailLength is in [0,30] and 31*wordCount + tailLength = n; wordCount is the
\* number of completed words in the list and tailLength is 0 exactly when
\* there is no trailing word.
C12_Counts ==
    SerReturned =>
        /\ SerWordCount = Len(SerBytes) \div 31
        /\ SerTailLength = Len(SerBytes) - 31 * SerWordCount
        /\ SerTailLength \in 0..30
        /\ 31 * SerWordCount + SerTailLength = Len(SerBytes)
        /\ SerWordCount = Len(SerCompleted)
        /\ Len(ser_out.res) = 4 + SerWordCount + (IF SerTailLength > 0 THEN 1 ELSE 0)

\* a script of 30 bytes: no completed word, a trailing word of 30 bytes
C12_Witness ==
    /\ SerReturned
    /\ Len(SerBytes) = 30
    /\ SerWordCount = 0
    /\ SerTailLength = 30

\* word k (from 1) and the trailing word of the script's bytes
ExpectedWord(k) ==
    FromBytesBig(SubSeq(SerBytes, WordWidth * (k - 1) + 1, WordWidth * k))
ExpectedTail ==
    FromBytesBig(SubSeq(SerBytes,
                        WordWidth * (Len(SerBytes) \div WordWidth) + 1,
                        Len(SerBytes)))

\* C13: the list serialize returns is value, wordCount, the completed words
\* in script order, the trailing word exactly when tailLength > 0 (also when
\* that word is 0), tailLength, and 1 or 0 for cached; for the empty script
\* it is value, 0, 0, cached flag.
C13_SerializeOrder ==
    SerReturned =>
        /\ ser_out.res =
             <<ser_in.value, IntToBig(Len(SerBytes) \div WordWidth)>>
             \o [k \in 1..(Len(SerBytes) \div WordWidth) |-> ExpectedWord(k)]
             \o (IF Len(SerBytes) % WordWidth > 0 THEN <<ExpectedTail>> ELSE << >>)
             \o <<IntToBig(Len(SerBytes) % WordWidth),
                  IntToBig(IF ser_in.cached THEN 1 ELSE 0)>>
        /\ SerBytes = << >> =>
             ser_out.res = <<ser_in.value, IntToBig(0), IntToBig(0),
                             IntToBig(IF ser_in.cached THEN 1 ELSE 0)>>

\* a cached output whose script has a completed word and trailing bytes that
\* are all zero
C13_Witness ==
    /\ SerReturned
    /\ ser_in.cached
    /\ ser_in.value # << >>
    /\ Len(SerCompleted) = 1
    /\ SerCompleted[1] # << >>
    /\ SerTailLength > 1
    /\ Len(ser_out.res) = 6
    /\ ser_out.res[4] = << >>

\* the outpoints a call of the running block can have been made for: those of
\* the inputs read in its transaction, or those built from the outputs read
\* in its transaction
CallOutPoints(c) ==
    IF c.op = "delete"
    THEN IF c.tx \in 1..Len(block.inputs)
         THEN {block.inputs[c.tx][k].previous_output : k \in 1..Len(block.inputs[c.tx])}
         ELSE {}
    ELSE IF c.tx + 1 \in 1..Len(block.outputs)
         THEN {OutPoint(block.txids[c.tx + 1], k - 1,
                        block.outputs[c.tx + 1][k].value,
                        block.outputs[c.tx + 1][k].pk_script,
                        block.outputs[c.tx + 1][k].cached,
                        block.height, block.time, block.hash, c.tx = 0) :
                  k \in 1..Len(block.outputs[c.tx + 1])}
         ELSE {}

\* tab is laid out as OutPoint.hash is to assemble it for the outpoint op,
\* txid_bytes and hash_bytes being the decoded txid and block hash and ser
\* what op.data.serialize() returns
TabLayoutOf(tab, op, txid_bytes, hash_bytes, ser) ==
    /\ ~txid_bytes.err /\ ~hash_bytes.err /\ ~ser.err
    /\ Len(tab) = 3 + Len(ser.res) + 5
    /\ tab[1] = FromBytesLittle(SubSeq(txid_bytes.val, 1, 16))
    /\ tab[2] = FromBytesLittle(SubSeq(txid_bytes.val, 17, 32))
    /\ tab[3] = IntToBig(op.vout)
    /\ SubSeq(tab, 4, 3 + Len(ser.res)) = ser.res
    /\ tab[Len(ser.res) + 4] = FromBytesLittle(SubSeq(hash_bytes.val, 1, 16))
    /\ tab[Len(ser.res) + 5] = FromBytesLittle(SubSeq(hash_bytes.val, 17, 32))
    /\ tab[Len(ser.res) + 6] = IntToBig(op.block_height)
    /\ tab[Len(ser.res) + 7] = IntToBig(op.block_time)
    /\ tab[Len(ser.res) + 8] = IntToBig(IF op.is_coinbase THEN 1 ELSE 0)

TabLayout(tab, op) ==
    TabLayoutOf(tab, op, FromHex(op.txid), FromHex(op.block_hash), Serialize(op.data))

\* C14: the leaf of every accumulator call is the compression of one list,
\* which holds in this order the first 16 txid bytes little-endian, the last
\* 16 txid bytes little-endian, vout, the list serialize() returns for the
\* output, the first and the last 16 block hash bytes little-endian, the
\* block height, the block time and 1 or 0 for is_coinbase.
C14_HashAssembly ==
    \A n \in 1..Len(calls) : calls[n].block = CurBlock =>
        /\ calls[n].leaf = PoseidonHashMany(calls[n].leaf.poseidon)
        /\ \E op \in CallOutPoints(calls[n]) :
              /\ ~op.data.cached
              /\ TabLayout(calls[n].leaf.poseidon, op)

\* a block has made a delete call and then an add call for the second output
\* of a transaction that is not the coinbase
C14_Witness ==
    /\ pc = "blocks" /\ CurBlock >= 0
    /\ Len(CallsOf(CurBlock)) >= 2
    /\ CallsOf(CurBlock)[1].op = "delete"
    /\ \E n \in 1..Len(calls) :
          /\ calls[n].block = CurBlock /\ calls[n].op = "add" /\ calls[n].tx = 1
          /\ calls[n].leaf.poseidon[3] = IntToBig(1)

\* the delete calls of block b, the failed one included
DeleteCallsOf(b) == SelectSeq(calls, LAMBDA c : c.block = b /\ c.op = "delete")

AddCallsOf(b) == SelectSeq(calls, LAMBDA c : c.block = b /\ c.op = "add")

\* the outputs read in transaction t (from 0) of the running block for which
\* add is called, in list order: position, transaction and hash
OutputsAdded(t) ==
    SelectSeq([k \in 1..Len(block.outputs[t + 1]) |->
                 [vout |-> k - 1, tx |-> t,
                  cached |-> block.outputs[t + 1][k].cached,
                  h |-> OutputLeaf(t, k)]],
              LAMBDA e : ~e.cached /\ ~e.h.err)

\* the same over the transactions of the running block, in block order
ExpectedAdds == Flatten([t \in 1..Len(block.outputs) |-> OutputsAdded(t - 1)])

\* C16: the add calls of a block are, in order, those for the non-cached
\* outputs of its transactions in block order and list order; the leaf of
\* each is the hash of the outpoint with the transaction's id, the block's
\* hash, height and time, vout the position of the output in the outputs
\* list, cached outputs counted, and is_coinbase true exactly for the first
\* transaction of the block.
C16_LeafConstruction ==
    /\ Len(AddCallsOf(CurBlock)) = Len(ExpectedAdds)
    /\ \A n \in 1..Len(AddCallsOf(CurBlock)) :
          /\ n <= Len(ExpectedAdds)
          /\ AddCallsOf(CurBlock)[n].tx = ExpectedAdds[n].tx
          /\ AddCallsOf(CurBlock)[n].leaf = ExpectedAdds[n].h.leaf
          /\ AddCallsOf(CurBlock)[n].leaf.poseidon[3] = IntToBig(ExpectedAdds[n].vout)
          /\ AddCallsOf(CurBlock)[n].leaf.poseidon[Len(AddCallsOf(CurBlock)[n].leaf.poseidon)]
               = IntToBig(IF ExpectedAdds[n].tx = 0 THEN 1 ELSE 0)

\* the coinbase has added its first output, and the second transaction its
\* second output after a cached first one
C16_Witness ==
    /\ pc = "blocks" /\ CurBlock >= 0
    /\ Len(block.outputs) = 2
    /\ Len(block.outputs[2]) = 2
    /\ block.outputs[2][1].cached /\ ~block.outputs[2][2].cached
    /\ Len(AddCallsOf(CurBlock)) = 2
    /\ AddCallsOf(CurBlock)[1].tx = 0
    /\ AddCallsOf(CurBlock)[2].tx = 1
    /\ AddCallsOf(CurBlock)[2].leaf.poseidon[3] = IntToBig(1)

\* the calls made so far are in block order, in each block the delete calls
\* come first and are in transaction order, none being of the first
\* transaction, and the add calls follow in transaction order; the delete
\* calls of the running block are those for its non-cached inputs in list
\* order, its add calls those for its non-cached outputs in list order, and
\* it has made no other call
C17_TraceShape ==
    /\ \A n \in 1..Len(calls) :
          /\ calls[n].block \in 0..CurBlock
          /\ calls[n].op \in {"delete", "add"}
          /\ calls[n].op = "delete" => calls[n].tx >= 1
          /\ calls[n].ok \/ (n = Len(calls) /\ pc = "raised")
          /\ \A m \in 1..(n - 1) :
                /\ calls[m].block <= calls[n].block
                /\ calls[m].block = calls[n].block =>
                      /\ ~(calls[m].op = "add" /\ calls[n].op = "delete")
                      /\ calls[m].op = calls[n].op => calls[m].tx <= calls[n].tx
    /\ Len(DeleteCallsOf(CurBlock)) <= Len(NonCachedInputs)
    /\ pc # "raised" => Len(DeleteCallsOf(CurBlock)) = Len(NonCachedInputs)
    /\ \A j \in 1..Len(DeleteCallsOf(CurBlock)) :
          /\ j <= Len(NonCachedInputs)
          /\ DeleteCallsOf(CurBlock)[j].leaf = InputLeaf(NonCachedInputs[j]).leaf
    /\ Len(AddCallsOf(CurBlock)) = Len(ExpectedAdds)
    /\ \A j \in 1..Len(AddCallsOf(CurBlock)) :
          /\ j <= Len(ExpectedAdds)
          /\ AddCallsOf(CurBlock)[j].leaf = ExpectedAdds[j].h.leaf
          /\ AddCallsOf(CurBlock)[j].tx = ExpectedAdds[j].tx
    /\ Len(CallsOf(CurBlock)) =
          Len(DeleteCallsOf(CurBlock)) + Len(AddCallsOf(CurBlock))

\* a step inside apply_blocks keeps the calls made and appends only calls of
\* the running block; the accumulator changes only with a call
C17_TraceExtended ==
    pc \in {"blocks", "txin", "txout"} =>
        /\ Len(calls') >= Len(calls)
        /\ SubSeq(calls', 1, Len(calls)) = calls
        /\ \A n \in (Len(calls) + 1)..Len(calls') : calls'[n].block = block_idx
        /\ calls' = calls => utreexo' = utreexo
        /\ utreexo' = ReplayCalls(utreexo, SubSeq(calls', Len(calls) + 1, Len(calls')))

NonCachedOutputs == SelectSeq(Flatten(block.outputs), LAMBDA out : ~out.cached)

\* the leaf count after the first n calls of the trace, by counting
RECURSIVE CountAfter(_)
CountAfter(n) ==
    IF n = 0 THEN Len(entry)
    ELSE CountAfter(n - 1)
         + (IF calls[n].op = "add" THEN 1 ELSE IF calls[n].ok THEN -1 ELSE 0)

\* C18: when apply_blocks has returned from a non-empty list,
\* expected.num_leaves = state.num_leaves + the number of non-cached outputs
\* of the last block - len(proofs); while apply_blocks has not failed the leaf
\* count is the count at the start of the block plus the non-cached outputs
\* read minus the non-cached inputs read in the block; over the run the leaf
\* count is the count at entry plus the add calls minus the delete calls, and
\* that count is never negative after any call.
C18_LeafAccounting ==
    /\ (pc = "returned" /\ nblocks > 0) =>
          /\ result.state # EmptyDict
          /\ result.expected.num_leaves =
                result.state.num_leaves + Len(NonCachedOutputs) - Len(result.proofs)
          /\ Len(result.proofs) = Len(NonCachedInputs)
    /\ pc = "returned" => result.expected.num_leaves = CountAfter(Len(calls))
    /\ pc # "raised" =>
          Len(utreexo) = Len(block_entry) + Len(NonCachedOutputs) - Len(NonCachedInputs)
    /\ Len(utreexo) = CountAfter(Len(calls))
    /\ \A n \in 0..Len(calls) : CountAfter(n) >= 0

\* a run of two blocks on a non-empty accumulator, the last block removing
\* two leaves and adding one
C18_Witness ==
    /\ pc = "returned"
    /\ nblocks = 2
    /\ Len(entry) > 0
    /\ Len(result.proofs) = 2
    /\ Len(NonCachedOutputs) = 1
    /\ result.state.num_leaves = 2
    /\ result.expected.num_leaves = 1

\* when apply_blocks has returned from a list of one block its state is the
\* snapshot of the accumulator it was entered with, and its expected that of
\* the accumulator as it is; when it has failed, the accumulator is the one
\* it was entered with after all the calls that went through
C19_Kept ==
    /\ (pc = "returned" /\ nblocks = 1) => result.state = SnapshotState(entry)
    /\ pc = "returned" => result.expected = SnapshotState(utreexo)
    /\ pc = "raised" =>
          /\ result = << >>
          /\ utreexo = ReplayCalls(entry, calls)
          /\ Len(utreexo) = CountAfter(Len(calls))

\* a call of apply_blocks begins on the accumulator as the call before left
\* it, which after a return is the one of that call's expected
C19_CallStep ==
    (pc \in {"idle", "returned", "raised"} /\ pc' = "blocks") =>
        /\ utreexo' = utreexo
        /\ entry' = utreexo
        /\ pc = "returned" => SnapshotState(entry') = result.expected

\* C19: apply_blocks never resets the accumulator: a call begins on the
\* accumulator the call before left, so that the state returned for a list
\* of one block is the expected the call before returned; when a call fails
\* the calls made before the failure remain applied.
C19_AccumulatorKept == [](C19_Kept) /\ [][C19_CallStep]_vars

\* a second call, on a non-empty accumulator, has returned from one block
\* that changed the accumulator
C19_Witness ==
    /\ pc = "returned"
    /\ ncalls = 2
    /\ nblocks = 1
    /\ Len(entry) > 0
    /\ calls # << >>
    /\ result.state = SnapshotState(entry)
    /\ result.state # result.expected

\* serialize() of every record it is called on here, tabulated once
SerTable == [t \in SerInputs |-> Serialize(t)]

\* C20: a record for which serialize returns the list it returned for the
\* record at hand has the same value, the same script bytes and the same
\* cached flag; records that differ in the value, in a script byte, in the
\* script length or in the cached flag get different lists.
C20_SerializeInjective ==
    SerReturned =>
        \A t \in SerInputs :
            (~SerTable[t].err /\ SerTable[t].res = ser_out.res) =>
                /\ t.value = ser_in.value
                /\ t.cached = ser_in.cached
                /\ ScriptBytes(t.pk_script).val = SerBytes

\* the script is 31 zero bytes; the scripts of 30 and of 32 zero bytes, the
\* same script as text in other letters, and the same script with the other
\* value or flag are among the records compared with
C20_Witness ==
    /\ SerReturned
    /\ Len(SerBytes) = 31
    /\ \A k \in 1..31 : SerBytes[k] = 0
    /\ \E t \in SerInputs :
          /\ ScriptBytes(t.pk_script).val = SerBytes \o <<0>>
          /\ t.value = ser_in.value /\ t.cached = ser_in.cached
          /\ SerTable[t].res # ser_out.res
    /\ \E t \in SerInputs :
          /\ ScriptBytes(t.pk_script).val = SubSeq(SerBytes, 1, 30)
          /\ t.value = ser_in.value /\ t.cached = ser_in.cached
          /\ SerTable[t].res # ser_out.res
    /\ \E t \in SerInputs :
          /\ t.pk_script = ser_in.pk_script
          /\ t.value # ser_in.value
          /\ SerTable[t].res # ser_out.res

====
